---- MODULE Spec2Model ----
(***************************************************************************)
(* hoScan2000 server: the offline-sync and area-claim core.                *)
(*                                                                         *)
(* The persistent store (Prisma/PostgreSQL) is the state: stocktake, area, *)
(* deviceSession, scan and syncLog rows.  Every route handler is an async  *)
(* function; each `await prisma...` is one atomic statement against the    *)
(* store and handlers of concurrent requests interleave between awaits.    *)
(* A request in flight is a slot of `req` holding the handler's position   *)
(* (pc), its parameters, its local variables and, once it has returned,    *)
(* its response.                                                           *)
(***************************************************************************)
EXTENDS Integers, Sequences, FiniteSets, TLC

\* ---------------------------------------------------------------- bounds
MaxOps == 2        \* requests issued in one behaviour of Spec
MaxSyncOps == 2    \* requests issued in one behaviour of SpecSync
MaxBatchOps == 2   \* requests issued in one behaviour of SpecBatch
MaxLifeOps == 3    \* requests issued in one behaviour of SpecLife
MaxEditOps == 3    \* requests issued in one behaviour of SpecEdit
MaxFaultOps == 2   \* requests issued in one behaviour of SpecFault
MaxPullOps == 3    \* requests issued in one behaviour of SpecPull
MaxChainOps == 3   \* requests issued in one behaviour of SpecChain
MaxTime == 2       \* readings of the wall clock: 1..MaxTime
MaxItems == 2      \* items in one push / scans in one upload
MaxBarcodes == 3   \* items in one master-file upload

\* ------------------------------------------------------------ identities
Devices == {"d1", "d2"}
Stocktakes == {"s1"}
Areas == {"a1", "a2"}
LocalIds == {"L1", "L2"}
Reqs == {1, 2}            \* requests that can be in flight together

NoArea == "null"          \* claimedAreaId = null
MissingArea == "a9"       \* a well-formed id with no StocktakeArea row
NoTime == 0               \* a null timestamp
Undefined == "undefined"  \* an absent optional payload field

SessionKeys == Stocktakes \X Devices

\* Barcodes of the store's master file, as sequences of characters.
Barcodes == {<<"9">>, <<"1", "0">>, <<"A">>}

\* No master-file response yet.
NoProbe == [type |-> "none", items |-> <<>>, version |-> <<>>, count |-> 0]

VARIABLES
  stocktake,   \* stocktake[s]: Stocktake.status
  stocktakeUpdatedAt, \* stocktakeUpdatedAt[s]: Stocktake.updatedAt
  area,        \* area[a]: StocktakeArea row (status, stocktakeId,
               \* startedAt, completedAt, updatedAt)
  session,     \* session[<<s, d>>]: DeviceSession row, status "NONE" = no row
  scan,        \* scan[l]: Scan row keyed by the unique localId
  syncLog,     \* syncLog[<<d, action, status>>]: number of such SyncLog rows
  now,         \* the server clock read by `new Date()`
  req,         \* req[r]: a request in flight or its response
  budget,      \* requests that may still be issued
  master,      \* master[b]: the BarcodeMaster row of barcode b of the store
  probe,       \* the last response of a master-file route
  puller       \* a device that pulls: its watermark and its cached statuses

vars == <<stocktake, stocktakeUpdatedAt, area, session, scan, syncLog, now,
          req, budget, master, probe, puller>>

\* ------------------------------------------------------------------ rows
NoSession == [status |-> "NONE", claimedAreaId |-> NoArea,
              scansCount |-> 0, lastActivityAt |-> NoTime]

\* The row deviceSession.upsert creates on a first join.
JoinedSession(t) == [NoSession EXCEPT !.status = "ACTIVE", !.lastActivityAt = t]

NoScan == [exists |-> FALSE, stocktakeId |-> "null", areaId |-> NoArea,
           deviceId |-> "null", barcode |-> "null", quantity |-> 0,
           isValid |-> FALSE, validationMessage |-> Undefined,
           scannedAt |-> NoTime]

\* An area of stocktake "s1", stamped when it was created.  updatedAt
\* of a Stocktake or StocktakeArea row is set to the clock by every update
\* of the row; no route writes the column itself.
NewArea == [status |-> "PENDING", stocktakeId |-> "s1", startedAt |-> NoTime,
            completedAt |-> NoTime, updatedAt |-> 1]

\* The session rows that reference area a through claimedAreaId
\* (StocktakeArea.claimedBy).
ClaimedBy(a) ==
  {k \in SessionKeys : session[k].status # "NONE" /\ session[k].claimedAreaId = a}

\* UniqueClaimViolation for a store without the unique key.
UniqueClaimViolation_None(k, a) == FALSE

\* `area.claimedBy` is read as a single row (area.claimedBy.deviceId), a
\* one-to-one relation: DeviceSession.claimedAreaId is unique in the store,
\* and a write that would give a second session the same claimedAreaId
\* raises a unique-constraint error.
UniqueClaimViolation(k, a) ==
  a # NoArea /\ \E o \in ClaimedBy(a) : o # k

\* --------------------------------------------------------------- requests
Idle == [type |-> "idle", items |-> <<>>, pc |-> "done", st |-> "null",
         ar |-> NoArea, dev |-> "null", idx |-> 0, code |-> 0,
         processed |-> 0, skipped |-> 0, failed |-> 0, errors |-> <<>>,
         created |-> 0, updated |-> 0,
         locTime |-> NoTime, locFound |-> FALSE,
         outcome |-> <<>>, pre |-> <<>>,
         since |-> NoTime, stocktakes |-> {}, areas |-> {}, serverTime |-> NoTime]
\* outcome and pre are history: the fate of each item of a push, and what
\* held when the request arrived (a SUCCESS row for each item of a push;
\* the area being unclaimed for a claim).

\* A request is accepted into the lowest slot that holds no request in
\* flight (the slots are interchangeable).
Free(r) ==
  /\ req[r].pc = "done"
  /\ budget > 0
  /\ \A q \in Reqs : q < r => req[q].pc # "done"

NewReq(type, pc, s, a, d) ==
  [Idle EXCEPT !.type = type, !.pc = pc, !.st = s, !.ar = a, !.dev = d]

\* return / reply.status(c).send(...): the handler's locals are gone.
Done(rq, c) ==
  [rq EXCEPT !.pc = "done", !.code = c, !.locTime = NoTime, !.locFound = FALSE]

At(r, type, pc) == req[r].type = type /\ req[r].pc = pc

\* A handler runs from one store statement to the next in one step; its
\* first step is the arrival of the request up to its first statement.
Arrive(r, rq) ==
  /\ Free(r)
  /\ req' = [req EXCEPT ![r] = rq]
  /\ budget' = budget - 1
  /\ UNCHANGED <<master, probe, puller>>

Step(r, rq) ==
  /\ req' = [req EXCEPT ![r] = rq]
  /\ UNCHANGED <<budget, master, probe, puller>>

\* A device that has pulled nothing yet: no status cached, watermark at
\* the epoch.
NoPuller == [stocktakes |-> [s \in Stocktakes |-> "UNKNOWN"],
             areas |-> [a \in Areas |-> "UNKNOWN"],
             watermark |-> NoTime]

\* ------------------------------------------------------------------ Init
\* A provisioned stocktake with no scans and an empty sync log.  Spec
\* starts from the stocktake started (ACTIVE) with device "d1" joined,
\* device "d2" joined or not, and possibly "d1" holding the claim on "a1".
InitStore ==
  /\ stocktakeUpdatedAt = [s \in Stocktakes |-> 1]
  /\ scan = [l \in LocalIds |-> NoScan]
  /\ syncLog = [e \in {} |-> 0]
  /\ now = 1
  /\ req = [r \in Reqs |-> Idle]
  /\ master = [b \in Barcodes |-> "NONE"]
  /\ probe = NoProbe
  /\ puller = NoPuller

Joined == [k \in SessionKeys |-> JoinedSession(1)]

Init ==
  /\ InitStore
  /\ stocktake = [s \in Stocktakes |-> "ACTIVE"]
  /\ \/ /\ session \in {Joined, [Joined EXCEPT ![<<"s1", "d2">>] = NoSession]}
        /\ area = [a \in Areas |-> NewArea]
     \/ /\ session = [Joined EXCEPT ![<<"s1", "d1">>].claimedAreaId = "a1"]
        /\ area = [a \in Areas |->
                     IF a = "a1"
                     THEN [NewArea EXCEPT !.status = "IN_PROGRESS", !.startedAt = 1]
                     ELSE NewArea]
  /\ budget = MaxOps

\* SpecLife starts from the DRAFT stocktake that POST / creates.
InitLife ==
  /\ InitStore
  /\ stocktake = [s \in Stocktakes |-> "DRAFT"]
  /\ session = [k \in SessionKeys |-> NoSession]
  /\ area = [a \in Areas |-> NewArea]
  /\ budget = MaxLifeOps

\* SpecSync and SpecBatch start from an ACTIVE stocktake that both
\* devices have joined.
InitJoined ==
  /\ InitStore
  /\ stocktake = [s \in Stocktakes |-> "ACTIVE"]
  /\ session = Joined
  /\ area = [a \in Areas |-> NewArea]

InitSync == InitJoined /\ budget = MaxSyncOps

InitBatch == InitJoined /\ budget = MaxBatchOps

\* The clock advances between any two statements.
Tick ==
  /\ now < MaxTime
  /\ now' = now + 1
  /\ UNCHANGED <<stocktake, stocktakeUpdatedAt, area, session, scan, syncLog, req, budget>>
  /\ UNCHANGED <<master, probe, puller>>

\* ===================================================== areas.routes.ts
\* ClaimFindArea answering 409 for every claimed area.
ClaimFindArea_NoReclaim(r, s, a, d) ==
  /\ LET rq == [NewReq("claim", "findSession", s, a, d) EXCEPT
                  !.pre = <<ClaimedBy(a) = {}>>]
     IN Arrive(r, IF a \notin Areas THEN Done(rq, 404)
                  ELSE IF ClaimedBy(a) # {} THEN Done(rq, 409)
                  ELSE [rq EXCEPT !.locTime = area[a].startedAt])
  /\ UNCHANGED <<stocktake, stocktakeUpdatedAt, area, session, scan, syncLog, now>>

\* POST /:id/areas/:areaId/claim
\* findUnique(area, include claimedBy): 404 if absent, 409 if claimed by
\* a session of another device.
ClaimFindArea(r, s, a, d) ==
  /\ LET rq == [NewReq("claim", "findSession", s, a, d) EXCEPT
                  !.pre = <<ClaimedBy(a) = {}>>]
     IN Arrive(r, IF a \notin Areas THEN Done(rq, 404)
                  ELSE IF \E k \in ClaimedBy(a) : k[2] # d THEN Done(rq, 409)
                  ELSE [rq EXCEPT !.locTime = area[a].startedAt])
  /\ UNCHANGED <<stocktake, stocktakeUpdatedAt, area, session, scan, syncLog, now>>

\* findUnique(deviceSession by stocktakeId_deviceId): 400 if absent.  The
\* session's status is not examined.
ClaimFindSession(r) ==
  /\ At(r, "claim", "findSession")
  /\ Step(r, IF session[<<req[r].st, req[r].dev>>].status = "NONE"
             THEN Done(req[r], 400)
             ELSE [req[r] EXCEPT !.pc = "tx"])
  /\ UNCHANGED <<stocktake, stocktakeUpdatedAt, area, session, scan, syncLog, now>>

\* ClaimTx committing the session update without the area update.
ClaimTx_SessionOnly(r) ==
  /\ At(r, "claim", "tx")
  /\ LET k == <<req[r].st, req[r].dev>>
         a == req[r].ar
     IN IF UniqueClaimViolation(k, a)
        THEN /\ Step(r, Done(req[r], 500))
             /\ UNCHANGED <<session, area>>
        ELSE /\ session' = [session EXCEPT ![k].claimedAreaId = a]
             /\ UNCHANGED area
             /\ Step(r, Done(req[r], 200))
  /\ UNCHANGED <<stocktake, stocktakeUpdatedAt, scan, syncLog, now>>

\* ClaimTx that puts the area the session held before back to PENDING.
ClaimTx_ResetPrevious(r) ==
  /\ At(r, "claim", "tx")
  /\ LET k == <<req[r].st, req[r].dev>>
         a == req[r].ar
         prev == session[k].claimedAreaId
     IN IF UniqueClaimViolation(k, a)
        THEN /\ Step(r, Done(req[r], 500))
             /\ UNCHANGED <<session, area>>
        ELSE /\ session' = [session EXCEPT ![k].claimedAreaId = a]
             /\ area' = [x \in Areas |->
                  IF x = a
                  THEN [area[x] EXCEPT
                          !.status = "IN_PROGRESS",
                          !.startedAt = IF req[r].locTime # NoTime
                                        THEN req[r].locTime ELSE now,
                          !.updatedAt = now]
                  ELSE IF x = prev
                  THEN [area[x] EXCEPT !.status = "PENDING", !.updatedAt = now]
                  ELSE area[x]]
             /\ Step(r, Done(req[r], 200))
  /\ UNCHANGED <<stocktake, stocktakeUpdatedAt, scan, syncLog, now>>

\* $transaction([session.update claimedAreaId, area.update status and
\* startedAt]), then the area is read back for the response.  A
\* unique-constraint error rolls the transaction back and the handler
\* throws (500).
ClaimTx(r) ==
  /\ At(r, "claim", "tx")
  /\ LET k == <<req[r].st, req[r].dev>>
         a == req[r].ar
     IN IF UniqueClaimViolation(k, a)
        THEN /\ Step(r, Done(req[r], 500))
             /\ UNCHANGED <<session, area>>
        ELSE /\ session' = [session EXCEPT ![k].claimedAreaId = a]
             /\ area' = [area EXCEPT
                  ![a].status = "IN_PROGRESS",
                  ![a].startedAt = IF req[r].locTime # NoTime
                                   THEN req[r].locTime ELSE now,
                  ![a].updatedAt = now]
             /\ Step(r, Done(req[r], 200))
  /\ UNCHANGED <<stocktake, stocktakeUpdatedAt, scan, syncLog, now>>

\* ReleaseFindSession that accepts a session holding any claim.
ReleaseFindSession_AnyClaim(r, s, a, d) ==
  /\ LET rq == NewReq("release", "update", s, a, d)
     IN Arrive(r, IF session[<<s, d>>].status = "NONE"
                     \/ session[<<s, d>>].claimedAreaId = NoArea
                  THEN Done(rq, 400) ELSE rq)
  /\ UNCHANGED <<stocktake, stocktakeUpdatedAt, area, session, scan, syncLog, now>>

\* POST /:id/areas/:areaId/release
\* 400 unless the device's session holds exactly this claim.
ReleaseFindSession(r, s, a, d) ==
  /\ LET rq == NewReq("release", "update", s, a, d)
     IN Arrive(r, IF session[<<s, d>>].status = "NONE"
                     \/ session[<<s, d>>].claimedAreaId # a
                  THEN Done(rq, 400) ELSE rq)
  /\ UNCHANGED <<stocktake, stocktakeUpdatedAt, area, session, scan, syncLog, now>>

\* ReleaseUpdate that also puts the area back to PENDING.
ReleaseUpdate_Revert(r) ==
  /\ At(r, "release", "update")
  /\ session' = [session EXCEPT ![<<req[r].st, req[r].dev>>].claimedAreaId = NoArea]
  /\ area' = [area EXCEPT ![req[r].ar].status = "PENDING",
                          ![req[r].ar].updatedAt = now]
  /\ Step(r, Done(req[r], 200))
  /\ UNCHANGED <<stocktake, stocktakeUpdatedAt, scan, syncLog, now>>

\* deviceSession.update({ claimedAreaId: null })
ReleaseUpdate(r) ==
  /\ At(r, "release", "update")
  /\ session' = [session EXCEPT ![<<req[r].st, req[r].dev>>].claimedAreaId = NoArea]
  /\ Step(r, Done(req[r], 200))
  /\ UNCHANGED <<stocktake, stocktakeUpdatedAt, area, scan, syncLog, now>>

\* POST /:id/areas/:areaId/complete
\* 400 unless the device's session holds exactly this claim.
CompleteFindSession(r, s, a, d) ==
  /\ LET rq == NewReq("complete", "tx", s, a, d)
     IN Arrive(r, IF session[<<s, d>>].status = "NONE"
                     \/ session[<<s, d>>].claimedAreaId # a
                  THEN Done(rq, 400) ELSE rq)
  /\ UNCHANGED <<stocktake, stocktakeUpdatedAt, area, session, scan, syncLog, now>>

\* CompleteTx without the session update.
CompleteTx_KeepClaim(r) ==
  /\ At(r, "complete", "tx")
  /\ area' = [area EXCEPT ![req[r].ar].status = "COMPLETED",
                          ![req[r].ar].completedAt = now,
                          ![req[r].ar].updatedAt = now]
  /\ Step(r, Done(req[r], 200))
  /\ UNCHANGED <<stocktake, stocktakeUpdatedAt, session, scan, syncLog, now>>

\* $transaction([area.update COMPLETED/completedAt, session.update null])
CompleteTx(r) ==
  /\ At(r, "complete", "tx")
  /\ area' = [area EXCEPT ![req[r].ar].status = "COMPLETED",
                          ![req[r].ar].completedAt = now,
                          ![req[r].ar].updatedAt = now]
  /\ session' = [session EXCEPT ![<<req[r].st, req[r].dev>>].claimedAreaId = NoArea]
  /\ Step(r, Done(req[r], 200))
  /\ UNCHANGED <<stocktake, stocktakeUpdatedAt, scan, syncLog, now>>

AreaArrivals ==
  \E r \in Reqs, s \in Stocktakes, d \in Devices :
    \/ \E a \in Areas \cup {MissingArea} : ClaimFindArea(r, s, a, d)
    \/ \E a \in Areas : ReleaseFindSession(r, s, a, d)
    \/ \E a \in Areas : CompleteFindSession(r, s, a, d)

AreaSteps ==
  \E r \in Reqs :
    ClaimFindSession(r) \/ ClaimTx(r) \/ ReleaseUpdate(r) \/ CompleteTx(r)

\* ================================================= stocktakes.routes.ts
\* POST /:id/start: findUnique, 400 unless DRAFT or PAUSED, then update.
StartFind(r, s) ==
  /\ LET rq == NewReq("start", "update", s, NoArea, "null")
     IN Arrive(r, IF stocktake[s] \notin {"DRAFT", "PAUSED"}
                  THEN Done(rq, 400) ELSE rq)
  /\ UNCHANGED <<stocktake, stocktakeUpdatedAt, area, session, scan, syncLog, now>>

StartUpdate(r) ==
  /\ At(r, "start", "update")
  /\ stocktake' = [stocktake EXCEPT ![req[r].st] = "ACTIVE"]
  /\ stocktakeUpdatedAt' = [stocktakeUpdatedAt EXCEPT ![req[r].st] = now]
  /\ Step(r, Done(req[r], 200))
  /\ UNCHANGED <<area, session, scan, syncLog, now>>

\* POST /:id/pause: 400 unless ACTIVE.
PauseFind(r, s) ==
  /\ LET rq == NewReq("pause", "update", s, NoArea, "null")
     IN Arrive(r, IF stocktake[s] # "ACTIVE" THEN Done(rq, 400) ELSE rq)
  /\ UNCHANGED <<stocktake, stocktakeUpdatedAt, area, session, scan, syncLog, now>>

PauseUpdate(r) ==
  /\ At(r, "pause", "update")
  /\ stocktake' = [stocktake EXCEPT ![req[r].st] = "PAUSED"]
  /\ stocktakeUpdatedAt' = [stocktakeUpdatedAt EXCEPT ![req[r].st] = now]
  /\ Step(r, Done(req[r], 200))
  /\ UNCHANGED <<area, session, scan, syncLog, now>>

\* POST /:id/complete: 400 unless ACTIVE or PAUSED.
StocktakeCompleteFind(r, s) ==
  /\ LET rq == NewReq("stocktakeComplete", "update", s, NoArea, "null")
     IN Arrive(r, IF stocktake[s] \notin {"ACTIVE", "PAUSED"}
                  THEN Done(rq, 400) ELSE rq)
  /\ UNCHANGED <<stocktake, stocktakeUpdatedAt, area, session, scan, syncLog, now>>

StocktakeCompleteUpdate(r) ==
  /\ At(r, "stocktakeComplete", "update")
  /\ stocktake' = [stocktake EXCEPT ![req[r].st] = "COMPLETED"]
  /\ stocktakeUpdatedAt' = [stocktakeUpdatedAt EXCEPT ![req[r].st] = now]
  /\ Step(r, [req[r] EXCEPT !.pc = "sessions"])
  /\ UNCHANGED <<area, session, scan, syncLog, now>>

\* deviceSession.updateMany(where stocktakeId, status ACTIVE):
\* status COMPLETED; claimedAreaId is not part of the update.
StocktakeCompleteSessions(r) ==
  /\ At(r, "stocktakeComplete", "sessions")
  /\ session' = [k \in SessionKeys |->
       IF k[1] = req[r].st /\ session[k].status = "ACTIVE"
       THEN [session[k] EXCEPT !.status = "COMPLETED"]
       ELSE session[k]]
  /\ Step(r, Done(req[r], 200))
  /\ UNCHANGED <<stocktake, stocktakeUpdatedAt, area, scan, syncLog, now>>

\* POST /:id/join: 401 on a wrong PIN, 400 unless the stocktake is ACTIVE.
JoinFind(r, s, d, pinOk) ==
  /\ LET rq == NewReq("join", "upsert", s, NoArea, d)
     IN Arrive(r, IF ~pinOk THEN Done(rq, 401)
                  ELSE IF stocktake[s] # "ACTIVE" THEN Done(rq, 400)
                  ELSE rq)
  /\ UNCHANGED <<stocktake, stocktakeUpdatedAt, area, session, scan, syncLog, now>>

\* deviceSession.upsert: a new row is ACTIVE with no claim; an existing
\* row becomes ACTIVE again and keeps its claimedAreaId and scansCount.
JoinUpsert(r) ==
  /\ At(r, "join", "upsert")
  /\ LET k == <<req[r].st, req[r].dev>>
     IN session' = [session EXCEPT ![k] =
          IF session[k].status = "NONE" THEN JoinedSession(now)
          ELSE [session[k] EXCEPT !.status = "ACTIVE", !.lastActivityAt = now]]
  /\ Step(r, Done(req[r], 200))
  /\ UNCHANGED <<stocktake, stocktakeUpdatedAt, area, scan, syncLog, now>>

\* POST /:id/leave: one updateMany; no row of the device is not an error.
Leave(r, s, d) ==
  /\ Arrive(r, Done(NewReq("leave", "done", s, NoArea, d), 200))
  /\ session' = [session EXCEPT ![<<s, d>>] =
       IF session[<<s, d>>].status = "NONE" THEN session[<<s, d>>]
       ELSE [session[<<s, d>>] EXCEPT !.status = "DISCONNECTED",
                                     !.claimedAreaId = NoArea]]
  /\ UNCHANGED <<stocktake, stocktakeUpdatedAt, area, scan, syncLog, now>>

\* Requests that start, pause or complete a stocktake.
LifecycleArrivals ==
  \E r \in Reqs, s \in Stocktakes :
    StartFind(r, s) \/ PauseFind(r, s) \/ StocktakeCompleteFind(r, s)

LifecycleSteps ==
  \E r \in Reqs :
    \/ StartUpdate(r) \/ PauseUpdate(r)
    \/ StocktakeCompleteUpdate(r) \/ StocktakeCompleteSessions(r)

\* Requests of devices that join or leave.
SessionArrivals ==
  \E r \in Reqs, s \in Stocktakes, d \in Devices :
    \/ \E pinOk \in BOOLEAN : JoinFind(r, s, d, pinOk)
    \/ Leave(r, s, d)

\* ======================================================= sync.routes.ts
\* Strings are sequences of characters; the action names of pushSyncSchema.
SCAN == <<"S", "C", "A", "N">>
DELETE_SCAN == <<"D", "E", "L", "E", "T", "E", "_">> \o SCAN
UPDATE_SCAN == <<"U", "P", "D", "A", "T", "E", "_">> \o SCAN
COMPLETE_AREA == <<"C", "O", "M", "P", "L", "E", "T", "E", "_", "A", "R", "E", "A">>
UPLOAD_SCANS == <<"U", "P", "L", "O", "A", "D", "_">> \o SCAN \o <<"S">>

\* SyncAction without the action name.
SyncAction_KeyOnly(item) ==
  <<"S", "Y", "N", "C", "_">> \o item.idempotencyKey

\* `SYNC_${item.action}_${item.idempotencyKey}`
SyncAction(item) ==
  <<"S", "Y", "N", "C", "_">> \o item.action \o <<"_">> \o item.idempotencyKey

LogCount(e) == IF e \in DOMAIN syncLog THEN syncLog[e] ELSE 0

\* syncLog.create: the table has no unique key besides its id.
LogCreate(e) ==
  [x \in DOMAIN syncLog \cup {e} |-> IF x = e THEN LogCount(e) + 1 ELSE syncLog[x]]

\* Existing with the lookup filtering on the wrong status.
Existing_WrongStatus(d, item) == LogCount(<<d, SyncAction(item), "FAILURE">>) > 0

\* syncLog.findFirst({ deviceId, action, status: 'SUCCESS' })
Existing(d, item) == LogCount(<<d, SyncAction(item), "SUCCESS">>) > 0

\* prisma.scan.upsert by localId, as both the push and the upload path
\* call it.  A new row needs its area and stocktake to exist (foreign
\* keys); an existing row only takes quantity, isValid and
\* validationMessage, and a field that is undefined in `update` is left
\* as it is.  The result is <<ok, scan'>>.
ScanUpsert(p, s, d) ==
  LET old == scan[p.localId]
  IN IF old.exists
     THEN <<TRUE, [scan EXCEPT ![p.localId] =
             [old EXCEPT !.quantity = p.quantity,
                         !.isValid = p.isValid,
                         !.validationMessage =
                            IF p.validationMessage = Undefined
                            THEN old.validationMessage
                            ELSE p.validationMessage]]>>
     ELSE IF p.areaId \in Areas /\ s \in Stocktakes
     THEN <<TRUE, [scan EXCEPT ![p.localId] =
             [exists |-> TRUE, stocktakeId |-> s, areaId |-> p.areaId,
              deviceId |-> d, barcode |-> p.barcode,
              quantity |-> p.quantity, isValid |-> p.isValid,
              validationMessage |-> p.validationMessage,
              scannedAt |-> p.scannedAt]]>>
     ELSE <<FALSE, scan>>

\* Item taking the items from the end of the list.
Item_Reversed(r) == req[r].items[Len(req[r].items) + 1 - req[r].idx]

\* The current item of a push and the move to the next one.
Item(r) == req[r].items[req[r].idx]

NextItem(rq) ==
  IF rq.idx = Len(rq.items)
  THEN Done(rq, 200)
  ELSE [rq EXCEPT !.pc = "lookup", !.idx = rq.idx + 1]

\* results.skipped++; continue
Skipped(rq) ==
  NextItem([rq EXCEPT !.skipped = rq.skipped + 1,
                      !.outcome = Append(rq.outcome, "skipped")])

\* Failed with the error ending the loop instead of the iteration.
Failed_Abort(rq) ==
  Done([rq EXCEPT !.failed = rq.failed + 1,
                  !.errors = Append(rq.errors, rq.items[rq.idx].idempotencyKey),
                  !.outcome = Append(rq.outcome, "failed")], 200)

\* catch: results.failed++; results.errors.push({ idempotencyKey, error })
Failed(rq) ==
  NextItem([rq EXCEPT !.failed = rq.failed + 1,
                      !.errors = Append(rq.errors, rq.items[rq.idx].idempotencyKey),
                      !.outcome = Append(rq.outcome, "failed")])

\* results.processed++
Processed(rq) ==
  NextItem([rq EXCEPT !.processed = rq.processed + 1,
                      !.outcome = Append(rq.outcome, "processed")])

\* Lookup that never finds a ledger row.
Lookup_NoLedger(rq) ==
  LET item == rq.items[rq.idx]
  IN [rq EXCEPT !.pc =
        IF item.action = SCAN THEN "scan"
        ELSE IF item.action = DELETE_SCAN THEN "delete"
        ELSE IF item.action = UPDATE_SCAN THEN "update"
        ELSE "completeFind"]

\* The ledger lookup of the current item: skip it when a SUCCESS row
\* exists, else go to its case of the switch.
Lookup(rq) ==
  LET item == rq.items[rq.idx]
  IN IF Existing(rq.dev, item) THEN Skipped(rq)
     ELSE [rq EXCEPT !.pc =
             IF item.action = SCAN THEN "scan"
             ELSE IF item.action = DELETE_SCAN THEN "delete"
             ELSE IF item.action = UPDATE_SCAN THEN "update"
             ELSE "completeFind"]

\* POST /push: the request arrives and looks its first item up.
PushStart(r, d, items) ==
  /\ Arrive(r, Lookup([NewReq("push", "lookup", "null", NoArea, d) EXCEPT
          !.items = items, !.idx = 1,
          !.pre = [i \in 1..Len(items) |->
                     LogCount(<<d, SyncAction(items[i]), "SUCCESS">>) > 0]]))
  /\ UNCHANGED <<stocktake, stocktakeUpdatedAt, area, session, scan, syncLog, now>>

\* The lookup of a later item.
PushLookup(r) ==
  /\ At(r, "push", "lookup")
  /\ Step(r, Lookup(req[r]))
  /\ UNCHANGED <<stocktake, stocktakeUpdatedAt, area, session, scan, syncLog, now>>

\* PushScan going on to the ledger write after an upsert that threw.
PushScan_LogFailure(r) ==
  /\ At(r, "push", "scan")
  /\ LET p == Item(r).payload
         res == ScanUpsert(p, p.stocktakeId, req[r].dev)
     IN /\ scan' = res[2]
        /\ Step(r, [req[r] EXCEPT !.pc = "log"])
  /\ UNCHANGED <<stocktake, stocktakeUpdatedAt, area, session, syncLog, now>>

\* case 'SCAN': the stocktake's status, the claim on the area and the
\* device's session are not consulted.
PushScan(r) ==
  /\ At(r, "push", "scan")
  /\ LET p == Item(r).payload
         res == ScanUpsert(p, p.stocktakeId, req[r].dev)
     IN /\ scan' = res[2]
        /\ Step(r, IF res[1] THEN [req[r] EXCEPT !.pc = "log"] ELSE Failed(req[r]))
  /\ UNCHANGED <<stocktake, stocktakeUpdatedAt, area, session, syncLog, now>>

\* where: { localId }: a localId that is undefined is no filter and every
\* row matches.
WhereLocalId(l, localId) == localId = Undefined \/ l = localId

\* PushDelete as scan.delete, which throws when no row matches.
PushDelete_Strict(r) ==
  /\ At(r, "push", "delete")
  /\ LET hit == \E l \in LocalIds :
                  scan[l].exists /\ WhereLocalId(l, Item(r).payload.localId)
     IN /\ scan' = [l \in LocalIds |->
             IF WhereLocalId(l, Item(r).payload.localId) THEN NoScan ELSE scan[l]]
        /\ Step(r, IF hit THEN [req[r] EXCEPT !.pc = "log"] ELSE Failed(req[r]))
  /\ UNCHANGED <<stocktake, stocktakeUpdatedAt, area, session, syncLog, now>>

\* case 'DELETE_SCAN': scan.deleteMany({ where: { localId } })
PushDelete(r) ==
  /\ At(r, "push", "delete")
  /\ scan' = [l \in LocalIds |->
       IF WhereLocalId(l, Item(r).payload.localId) THEN NoScan ELSE scan[l]]
  /\ Step(r, [req[r] EXCEPT !.pc = "log"])
  /\ UNCHANGED <<stocktake, stocktakeUpdatedAt, area, session, syncLog, now>>

\* case 'UPDATE_SCAN': scan.updateMany({ where: { localId },
\* data: { quantity } }); an undefined quantity changes nothing.
PushUpdate(r) ==
  /\ At(r, "push", "update")
  /\ LET p == Item(r).payload
     IN scan' = [l \in LocalIds |->
          IF WhereLocalId(l, p.localId) /\ scan[l].exists /\ p.quantity # 0
          THEN [scan[l] EXCEPT !.quantity = p.quantity]
          ELSE scan[l]]
  /\ Step(r, [req[r] EXCEPT !.pc = "log"])
  /\ UNCHANGED <<stocktake, stocktakeUpdatedAt, area, session, syncLog, now>>

\* case 'COMPLETE_AREA': deviceSession.findFirst({ deviceId, stocktakeId,
\* claimedAreaId })
PushCompleteFind(r) ==
  /\ At(r, "push", "completeFind")
  /\ LET p == Item(r).payload
         k == <<p.stocktakeId, req[r].dev>>
     IN Step(r, [req[r] EXCEPT !.pc = "completeTx",
                               !.st = p.stocktakeId,
                               !.locFound = /\ k \in SessionKeys
                                            /\ session[k].status # "NONE"
                                            /\ session[k].claimedAreaId = p.areaId])
  /\ UNCHANGED <<stocktake, stocktakeUpdatedAt, area, session, scan, syncLog, now>>

\* $transaction([area.update COMPLETED, ...(session ? [session.update
\* claimedAreaId null] : [])]); area.update throws when the row is absent.
PushCompleteTx(r) ==
  /\ At(r, "push", "completeTx")
  /\ LET p == Item(r).payload
     IN IF p.areaId \notin Areas
        THEN /\ Step(r, Failed(req[r]))
             /\ UNCHANGED <<area, session>>
        ELSE /\ area' = [area EXCEPT ![p.areaId].status = "COMPLETED",
                                     ![p.areaId].completedAt = now,
                                     ![p.areaId].updatedAt = now]
             /\ session' = IF req[r].locFound
                           THEN [session EXCEPT
                                   ![<<req[r].st, req[r].dev>>].claimedAreaId = NoArea]
                           ELSE session
             /\ Step(r, [req[r] EXCEPT !.pc = "log", !.locFound = FALSE])
  /\ UNCHANGED <<stocktake, stocktakeUpdatedAt, scan, syncLog, now>>

\* syncLog.create({ deviceId, action, status: 'SUCCESS' }); processed++
PushLog(r) ==
  /\ At(r, "push", "log")
  /\ syncLog' = LogCreate(<<req[r].dev, SyncAction(Item(r)), "SUCCESS">>)
  /\ Step(r, Processed(req[r]))
  /\ UNCHANGED <<stocktake, stocktakeUpdatedAt, area, session, scan, now>>

\* syncLog.create rejects (the store refuses or loses the write): the
\* catch of the same try counts the item as failed; nothing is undone.
PushLogRejected(r) ==
  /\ At(r, "push", "log")
  /\ Step(r, Failed(req[r]))
  /\ UNCHANGED <<stocktake, stocktakeUpdatedAt, area, session, scan, syncLog, now>>

PushSteps ==
  \E r \in Reqs :
    \/ PushLookup(r) \/ PushScan(r) \/ PushDelete(r) \/ PushUpdate(r)
    \/ PushCompleteFind(r) \/ PushCompleteTx(r) \/ PushLog(r)

\* ====================================================== scans.routes.ts
\* UploadFind without the status check.
UploadFind_Ungated(r, s, d, scans) ==
  /\ Arrive(r, [NewReq("upload", "upsert", s, NoArea, d) EXCEPT
                  !.items = scans, !.idx = 1])
  /\ UNCHANGED <<stocktake, stocktakeUpdatedAt, area, session, scan, syncLog, now>>

\* POST /:id/scans: 400 unless the stocktake is ACTIVE or PAUSED.
UploadFind(r, s, d, scans) ==
  /\ LET rq == [NewReq("upload", "upsert", s, NoArea, d) EXCEPT
                  !.items = scans, !.idx = 1]
     IN Arrive(r, IF stocktake[s] \notin {"ACTIVE", "PAUSED"}
                  THEN Done(rq, 400) ELSE rq)
  /\ UNCHANGED <<stocktake, stocktakeUpdatedAt, area, session, scan, syncLog, now>>

\* One turn of the upsert loop: results.created++ after every upsert that
\* does not throw, results.failed++ otherwise.
UploadUpsert(r) ==
  /\ At(r, "upload", "upsert")
  /\ LET p == Item(r)
         res == ScanUpsert(p, req[r].st, req[r].dev)
         rq == IF res[1]
               THEN [req[r] EXCEPT !.created = req[r].created + 1]
               ELSE [req[r] EXCEPT !.failed = req[r].failed + 1,
                                   !.errors = Append(req[r].errors, p.localId)]
     IN /\ scan' = res[2]
        /\ Step(r, IF rq.idx = Len(rq.items) THEN [rq EXCEPT !.pc = "session"]
                   ELSE [rq EXCEPT !.idx = rq.idx + 1])
  /\ UNCHANGED <<stocktake, stocktakeUpdatedAt, area, session, syncLog, now>>

\* deviceSession.updateMany: lastActivityAt, scansCount += results.created
UploadSession(r) ==
  /\ At(r, "upload", "session")
  /\ LET k == <<req[r].st, req[r].dev>>
     IN session' = [session EXCEPT ![k] =
          IF session[k].status = "NONE" THEN session[k]
          ELSE [session[k] EXCEPT !.lastActivityAt = now,
                                  !.scansCount = session[k].scansCount + req[r].created]]
  /\ Step(r, [req[r] EXCEPT !.pc = "log"])
  /\ UNCHANGED <<stocktake, stocktakeUpdatedAt, area, scan, syncLog, now>>

\* syncLog.create({ action: 'UPLOAD_SCANS', status: PARTIAL | SUCCESS })
UploadLog(r) ==
  /\ At(r, "upload", "log")
  /\ syncLog' = LogCreate(<<req[r].dev, UPLOAD_SCANS,
                            IF req[r].failed > 0 THEN "PARTIAL" ELSE "SUCCESS">>)
  /\ Step(r, Done(req[r], 200))
  /\ UNCHANGED <<stocktake, stocktakeUpdatedAt, area, session, scan, now>>

UploadSteps ==
  \E r \in Reqs : UploadUpsert(r) \/ UploadSession(r) \/ UploadLog(r)

\* ===================================================== master routes
\* UTF-16 code units of the characters that occur in barcodes and in the
\* joined string.
Code(c) ==
  CASE c = "," -> 44 [] c = "0" -> 48 [] c = "1" -> 49 [] c = "9" -> 57
    [] c = "A" -> 65

\* a < b as Array.prototype.sort() without a comparator orders strings:
\* by code units, a proper prefix first.
RECURSIVE StrLess(_, _)
StrLess(a, b) ==
  IF b = <<>> THEN FALSE
  ELSE IF a = <<>> THEN TRUE
  ELSE IF Code(Head(a)) # Code(Head(b)) THEN Code(Head(a)) < Code(Head(b))
  ELSE StrLess(Tail(a), Tail(b))

\* Insert string x into a sorted list, after the elements equal to it.
RECURSIVE Insert(_, _)
Insert(x, list) ==
  IF list = <<>> THEN <<x>>
  ELSE IF StrLess(x, Head(list)) THEN <<x>> \o list
  ELSE <<Head(list)>> \o Insert(x, Tail(list))

\* .sort()
RECURSIVE Sort(_)
Sort(list) ==
  IF list = <<>> THEN <<>>
  ELSE Insert(list[Len(list)], Sort(SubSeq(list, 1, Len(list) - 1)))

\* .join(',')
RECURSIVE Join(_)
Join(list) ==
  IF list = <<>> THEN <<>>
  ELSE IF Len(list) = 1 THEN Head(list)
  ELSE Head(list) \o <<",">> \o Join(Tail(list))

\* createHash('sha256').update(str).digest('hex').slice(0, 16): the digest
\* is taken as collision-free, a value that stands for the hash of str.
Sha256Hex16(str) == [sha256 |-> str]

\* computeMasterVersion without the sort.
computeMasterVersion_NoSort(items) == Sha256Hex16(Join(items))

\* computeMasterVersion(items): items.map(i => i.barcode).sort().join(',')
\* hashed.
computeMasterVersion(items) == Sha256Hex16(Join(Sort(items)))

\* Lists of at most MaxBarcodes barcodes; a barcode may occur twice.
BarcodeLists == UNION {[1..n -> Barcodes] : n \in 0..MaxBarcodes}

\* The active rows of the store, as findMany without orderBy may return
\* them: in any order.
ActiveRows ==
  LET A == {b \in Barcodes : master[b] = "ACTIVE"}
  IN {l \in [1..Cardinality(A) -> A] : \A i, j \in DOMAIN l : i # j => l[i] # l[j]}

\* POST /:storeId/master: one transaction marks every row of the store
\* inactive and upserts each item as active; the version of the response
\* is computed from the items of the request.
MasterUpload(items) ==
  /\ master' = [b \in Barcodes |->
       IF \E i \in DOMAIN items : items[i] = b THEN "ACTIVE"
       ELSE IF master[b] = "NONE" THEN "NONE" ELSE "INACTIVE"]
  /\ probe' = [type |-> "upload", items |-> items,
               version |-> computeMasterVersion(items), count |-> Len(items)]
  /\ UNCHANGED <<stocktake, stocktakeUpdatedAt, area, session, scan, syncLog, now, req, budget, puller>>

\* HEAD and GET /:storeId/master: the version of the active rows.
MasterHead ==
  /\ \E rows \in ActiveRows :
       probe' = [type |-> "head", items |-> rows,
                 version |-> computeMasterVersion(rows), count |-> Len(rows)]
  /\ UNCHANGED <<stocktake, stocktakeUpdatedAt, area, session, scan, syncLog, now, req, budget, master, puller>>

\* POST /:storeId/master/items: upsert of one active row.
MasterAddItem(b) ==
  /\ master' = [master EXCEPT ![b] = "ACTIVE"]
  /\ probe' = [type |-> "item", items |-> <<b>>, version |-> <<>>, count |-> 1]
  /\ UNCHANGED <<stocktake, stocktakeUpdatedAt, area, session, scan, syncLog, now, req, budget, puller>>

\* POST / of stocktakes.routes.ts: masterVersion of the new stocktake,
\* computed in place from the active rows.
StocktakeMasterVersion ==
  /\ \E rows \in ActiveRows :
       probe' = [type |-> "create", items |-> rows,
                 version |-> Sha256Hex16(Join(Sort(rows))), count |-> Len(rows)]
  /\ UNCHANGED <<stocktake, stocktakeUpdatedAt, area, session, scan, syncLog, now, req, budget, master, puller>>

\* ================================================ sync.routes.ts (pull)
\* new Date(since) of a string that is no timestamp.
InvalidDate == -1

\* updatedAt: { gt: sinceDate }
Gt_OrEqual(updatedAt, sinceDate) == updatedAt >= sinceDate

Gt(updatedAt, sinceDate) == updatedAt > sinceDate

\* ...(stocktakeId && { ... }): no filter for an absent or empty
\* stocktakeId.
Scoped(stocktakeId, rowStocktake) ==
  stocktakeId \in {Undefined, ""} \/ rowStocktake = stocktakeId

\* stocktake.findMany({ where: { updatedAt gt, id }, select: { id,
\* status, updatedAt } })
StocktakeRows(sinceDate, stocktakeId) ==
  {[status |-> stocktake[s], updatedAt |-> stocktakeUpdatedAt[s], id |-> s] :
     s \in {x \in Stocktakes : /\ Gt(stocktakeUpdatedAt[x], sinceDate)
                               /\ Scoped(stocktakeId, x)}}

\* stocktakeArea.findMany({ where: { updatedAt gt, stocktakeId },
\* select: { id, stocktakeId, status, updatedAt } })
AreaRows(sinceDate, stocktakeId) ==
  {[status |-> area[a].status, stocktakeId |-> area[a].stocktakeId,
    updatedAt |-> area[a].updatedAt, id |-> a] :
     a \in {x \in Areas : /\ Gt(area[x].updatedAt, sinceDate)
                          /\ Scoped(stocktakeId, area[x].stocktakeId)}}

\* GET /pull: the first query.  A since that is no timestamp makes the
\* query throw (500).
PullStocktakes(r, since, stocktakeId) ==
  /\ LET rq == [NewReq("pull", "areas", stocktakeId, NoArea, "null") EXCEPT
                 !.since = since]
     IN Arrive(r, IF since = InvalidDate THEN Done(rq, 500)
                  ELSE [rq EXCEPT !.stocktakes = StocktakeRows(since, stocktakeId)])
  /\ UNCHANGED <<stocktake, stocktakeUpdatedAt, area, session, scan, syncLog, now>>

\* The second query.
PullAreas(r) ==
  /\ At(r, "pull", "areas")
  /\ Step(r, [req[r] EXCEPT !.areas = AreaRows(req[r].since, req[r].st),
                            !.pc = "return"])
  /\ UNCHANGED <<stocktake, stocktakeUpdatedAt, area, session, scan, syncLog, now>>

\* return { stocktakes, areas, serverTime: new Date().toISOString() }
PullResponse(r) ==
  /\ At(r, "pull", "return")
  /\ req' = [req EXCEPT ![r] = Done([req[r] EXCEPT !.serverTime = now], 200)]
  /\ UNCHANGED <<stocktake, stocktakeUpdatedAt, area, session, scan, syncLog, now>>
  /\ UNCHANGED <<budget, master, probe>>

\* The response goes to a caller that keeps no watermark.
PullReturn(r) == PullResponse(r) /\ UNCHANGED puller

\* The response goes to the pulling device, which overwrites the cached
\* status of every returned row and keeps serverTime as its watermark.
Refresh(resp) ==
  [stocktakes |-> [s \in Stocktakes |->
                    IF \E row \in resp.stocktakes : row.id = s
                    THEN (CHOOSE row \in resp.stocktakes : row.id = s).status
                    ELSE puller.stocktakes[s]],
   areas |-> [a \in Areas |->
               IF \E row \in resp.areas : row.id = a
               THEN (CHOOSE row \in resp.areas : row.id = a).status
               ELSE puller.areas[a]],
   watermark |-> resp.serverTime]

PullDeliver(r) == PullResponse(r) /\ puller' = Refresh(req'[r])

\* The pulling device asks for the changes since its watermark, one pull
\* at a time.
PullChained(r) ==
  /\ \A q \in Reqs : req[q].type = "pull" => req[q].pc = "done"
  /\ PullStocktakes(r, puller.watermark, Undefined)

\* ---------------------------------------------------------------- inputs
\* Scan payloads: variant 1 and variant 2 of a scan differ in every field
\* but the localId; variant 2 carries no validationMessage.
ScanPayload(l, a, v) ==
  [stocktakeId |-> "s1", areaId |-> a,
   barcode |-> IF v = 1 THEN "9300675024235" ELSE "9300675024242",
   quantity |-> IF v = 1 THEN 1 ELSE 5,
   isValid |-> (v # 1),
   validationMessage |-> IF v = 1 THEN "Unknown barcode" ELSE Undefined,
   scannedAt |-> v, localId |-> l]

\* Payloads of the other actions carry only the fields their case reads;
\* quantity 0 stands for an UPDATE_SCAN without quantity.
RefPayload(l, a, q) ==
  [ScanPayload(l, a, 1) EXCEPT !.quantity = q, !.barcode = "null",
     !.isValid = FALSE, !.validationMessage = Undefined, !.scannedAt = NoTime]

PushItem(action, key, payload) ==
  [idempotencyKey |-> key, action |-> action, payload |-> payload]

\* Non-empty lists of at most MaxItems elements of S.
Batches(S) == UNION {[1..n -> S] : n \in 1..MaxItems}

\* The inputs of Spec: single items that complete area "a1" or scan into
\* it.
CoordItems ==
  {PushItem(COMPLETE_AREA, <<"k">>, RefPayload("L1", "a1", 0)),
   PushItem(SCAN, <<"k">>, ScanPayload("L1", "a1", 1))}

CoordArrivals ==
  \/ \E r \in Reqs, d \in Devices, i \in CoordItems : PushStart(r, d, <<i>>)
  \/ \E r \in Reqs, s \in Stocktakes : StocktakeCompleteFind(r, s)

CoordSteps ==
  \E r \in Reqs :
    \/ PushScan(r) \/ PushCompleteFind(r) \/ PushCompleteTx(r) \/ PushLog(r)
    \/ StocktakeCompleteUpdate(r) \/ StocktakeCompleteSessions(r)
    \/ JoinUpsert(r)

\* The inputs of SpecSync: single items of every action and one pair; "k" is the key of
\* items of three different actions, "q" the key of two different SCAN
\* payloads; one SCAN and one COMPLETE_AREA name an area that does not
\* exist.
SyncItems ==
  {PushItem(SCAN, <<"k">>, ScanPayload("L1", "a1", 1)),
   PushItem(SCAN, <<"q">>, ScanPayload("L1", "a2", 2)),
   PushItem(SCAN, <<"q">>, ScanPayload("L2", MissingArea, 1)),
   PushItem(DELETE_SCAN, <<"k">>, RefPayload("L1", NoArea, 0)),
   PushItem(UPDATE_SCAN, <<"q">>, RefPayload("L1", NoArea, 5)),
   PushItem(COMPLETE_AREA, <<"k">>, RefPayload("L1", "a1", 0)),
   PushItem(COMPLETE_AREA, <<"q">>, RefPayload("L1", MissingArea, 0))}

SyncScans ==
  {ScanPayload("L1", "a1", 1), ScanPayload("L1", "a2", 2),
   ScanPayload("L2", MissingArea, 1)}

\* A list of two items: a scan and its deletion under the same key.
SyncPair ==
  <<PushItem(SCAN, <<"k">>, ScanPayload("L1", "a1", 1)),
    PushItem(DELETE_SCAN, <<"k">>, RefPayload("L1", NoArea, 0))>>

SyncItemArrivals ==
  \E r \in Reqs, d \in Devices :
    \/ \E i \in SyncItems : PushStart(r, d, <<i>>)
    \/ PushStart(r, d, SyncPair)
    \/ \E s \in Stocktakes, p \in SyncScans : UploadFind(r, s, d, <<p>>)

\* The inputs of SpecBatch: device "d1" sends one list after the other;
\* the second SCAN names an area that does not exist.
BatchItems ==
  {PushItem(SCAN, <<"k">>, ScanPayload("L1", "a1", 1)),
   PushItem(SCAN, <<"q">>, ScanPayload("L2", MissingArea, 1)),
   PushItem(DELETE_SCAN, <<"k">>, RefPayload("L1", NoArea, 0)),
   PushItem(UPDATE_SCAN, <<"q">>, RefPayload("L1", NoArea, 5)),
   PushItem(COMPLETE_AREA, <<"k">>, RefPayload("L1", "a1", 0))}

BatchScans == {ScanPayload("L1", "a1", 2), ScanPayload("L2", MissingArea, 1)}

BatchArrivals ==
  \/ \E b \in Batches(BatchItems) : PushStart(1, "d1", b)
  \/ \E s \in Stocktakes, b \in Batches(BatchScans) : UploadFind(1, s, "d1", b)

\* The inputs of SpecEdit: device "d1" sends single items one after the
\* other: scans of L1 and L2, and deletions and updates that address L1,
\* or carry no localId, or carry isValid and validationMessage.  A
\* payload carries quantity when q is not 0, and isValid together with
\* validationMessage when m is not undefined.
EditPayload(l, q, v, m) ==
  [RefPayload("L1", NoArea, q) EXCEPT
     !.localId = l, !.isValid = v, !.validationMessage = m]

EditItems ==
  {PushItem(SCAN, <<"k">>, ScanPayload("L1", "a1", 1)),
   PushItem(SCAN, <<"q">>, ScanPayload("L2", "a2", 2)),
   PushItem(DELETE_SCAN, <<"k">>, EditPayload("L1", 0, FALSE, Undefined)),
   PushItem(DELETE_SCAN, <<"q">>, EditPayload(Undefined, 0, FALSE, Undefined)),
   PushItem(UPDATE_SCAN, <<"k">>, EditPayload("L1", 5, FALSE, Undefined)),
   PushItem(UPDATE_SCAN, <<"q">>, EditPayload(Undefined, 7, FALSE, Undefined)),
   PushItem(UPDATE_SCAN, <<"v">>, EditPayload("L1", 0, TRUE, "Checked"))}

EditArrivals == \E i \in EditItems : PushStart(1, "d1", <<i>>)

EditSteps == PushScan(1) \/ PushDelete(1) \/ PushUpdate(1) \/ PushLog(1)

\* The inputs of SpecLife: single scans pushed and uploaded while the
\* stocktake goes through its statuses.
LifeArrivals ==
  \E r \in Reqs, d \in Devices :
    \/ PushStart(r, d, <<PushItem(SCAN, <<"k">>, ScanPayload("L1", "a1", 1))>>)
    \/ \E s \in Stocktakes : UploadFind(r, s, d, <<ScanPayload("L1", "a1", 2)>>)

LifeSteps ==
  \E r \in Reqs : PushScan(r) \/ PushLog(r) \/ JoinUpsert(r)

\* ------------------------------------------------------ specifications
\* Spec: the area-claim coordination under concurrent requests.
Next ==
  \/ Tick
  \/ AreaArrivals \/ AreaSteps
  \/ SessionArrivals
  \/ CoordArrivals \/ CoordSteps

Spec == Init /\ [][Next]_vars

\* SpecLocked: the same requests on a store whose area "a2" is LOCKED, a
\* value of StocktakeArea.status that no route writes.
InitLocked ==
  /\ InitStore
  /\ stocktake = [s \in Stocktakes |-> "ACTIVE"]
  /\ session = [Joined EXCEPT ![<<"s1", "d1">>].claimedAreaId = "a1"]
  /\ area = [a \in Areas |->
               IF a = "a1"
               THEN [NewArea EXCEPT !.status = "IN_PROGRESS", !.startedAt = 1]
               ELSE [NewArea EXCEPT !.status = "LOCKED"]]
  /\ budget = MaxOps

SpecLocked == InitLocked /\ [][Next]_vars

\* SpecCross: the same requests on a store whose area "a2" belongs to
\* another stocktake, "s2".
InitCross ==
  /\ InitStore
  /\ stocktake = [s \in Stocktakes |-> "ACTIVE"]
  /\ session = [Joined EXCEPT ![<<"s1", "d1">>].claimedAreaId = "a1"]
  /\ area = [a \in Areas |->
               IF a = "a1"
               THEN [NewArea EXCEPT !.status = "IN_PROGRESS", !.startedAt = 1]
               ELSE [NewArea EXCEPT !.stocktakeId = "s2"]]
  /\ budget = MaxOps

SpecCross == InitCross /\ [][Next]_vars

\* SpecSync: concurrent single-item pushes and uploads of two devices.
NextSync == Tick \/ SyncItemArrivals \/ PushSteps \/ UploadSteps

SpecSync == InitSync /\ [][NextSync]_vars

\* SpecBatch: lists of items pushed and uploaded by one device.
NextBatch == BatchArrivals \/ PushSteps \/ UploadSteps

SpecBatch == InitBatch /\ [][NextBatch]_vars

\* SpecEdit: scans created, updated and deleted by the pushes of one
\* device.
InitEdit == InitJoined /\ budget = MaxEditOps

NextEdit == EditArrivals \/ EditSteps

SpecEdit == InitEdit /\ [][NextEdit]_vars

\* SpecLife: scans arriving while the stocktake is started, paused and
\* completed and devices join and leave.
NextLife ==
  \/ Tick
  \/ LifecycleArrivals \/ LifecycleSteps
  \/ SessionArrivals
  \/ LifeArrivals \/ LifeSteps \/ UploadSteps

SpecLife == InitLife /\ [][NextLife]_vars

\* SpecMaster: the master file of one store is uploaded, extended and
\* probed.
InitMaster ==
  /\ InitStore
  /\ stocktake = [s \in Stocktakes |-> "DRAFT"]
  /\ session = [k \in SessionKeys |-> NoSession]
  /\ area = [a \in Areas |-> NewArea]
  /\ budget = 0

NextMaster ==
  \/ \E items \in BarcodeLists : MasterUpload(items)
  \/ MasterHead
  \/ \E b \in Barcodes : MasterAddItem(b)
  \/ StocktakeMasterVersion

SpecMaster == InitMaster /\ [][NextMaster]_vars

\* SpecFault: single-item pushes of device "d1" against a store whose
\* ledger writes can be rejected.
InitFault == InitJoined /\ budget = MaxFaultOps

FaultItems ==
  {PushItem(SCAN, <<"k">>, ScanPayload("L1", "a1", 1)),
   PushItem(SCAN, <<"q">>, ScanPayload("L2", MissingArea, 1)),
   PushItem(DELETE_SCAN, <<"k">>, RefPayload("L1", NoArea, 0)),
   PushItem(COMPLETE_AREA, <<"k">>, RefPayload("L1", "a1", 0)),
   PushItem(COMPLETE_AREA, <<"q">>, RefPayload("L1", MissingArea, 0))}

FaultArrivals ==
  \E r \in Reqs, i \in FaultItems : PushStart(r, "d1", <<i>>)

NextFault ==
  \/ FaultArrivals
  \/ \E r \in Reqs :
       \/ PushScan(r) \/ PushDelete(r)
       \/ PushCompleteFind(r) \/ PushCompleteTx(r)
       \/ PushLog(r) \/ PushLogRejected(r)

SpecFault == InitFault /\ [][NextFault]_vars

\* SpecPull: pulls with any since and scope while device "d1" claims and
\* completes areas and the stocktake is paused and restarted.
InitPull == InitJoined /\ budget = MaxPullOps

PullArrivals ==
  \E r \in Reqs, since \in 0..MaxTime \cup {InvalidDate},
     stocktakeId \in {Undefined, "s1", "s2"} :
    PullStocktakes(r, since, stocktakeId)

StatusArrivals ==
  \E r \in Reqs :
    \/ \E a \in Areas : \/ ClaimFindArea(r, "s1", a, "d1")
                        \/ CompleteFindSession(r, "s1", a, "d1")
    \/ PauseFind(r, "s1") \/ StartFind(r, "s1")

StatusSteps ==
  \E r \in Reqs :
    \/ ClaimFindSession(r) \/ ClaimTx(r) \/ CompleteTx(r)
    \/ PauseUpdate(r) \/ StartUpdate(r)

NextPull ==
  \/ Tick
  \/ PullArrivals
  \/ \E r \in Reqs : PullAreas(r) \/ PullReturn(r)
  \/ StatusArrivals \/ StatusSteps

SpecPull == InitPull /\ [][NextPull]_vars

\* SpecChain: one device pulls with the serverTime of its last response
\* as since, while the statuses change.
InitChain == InitJoined /\ budget = MaxChainOps

NextChain ==
  \/ Tick
  \/ \E r \in Reqs : PullChained(r) \/ PullAreas(r) \/ PullDeliver(r)
  \/ StatusArrivals \/ StatusSteps

SpecChain == InitChain /\ [][NextChain]_vars

\* ================================================================ claims
PushDone(r) == req[r].type = "push" /\ req[r].pc = "done"

\* A step of request r.
Moves(r) == req'[r] # req[r]

\* C1. Idempotent replay: a push that arrives after an item's SUCCESS row
\* was written counts the item as skipped (a single item: skipped = 1,
\* processed = 0, failed = 0), and no step taken for such an item changes
\* a scan, an area, a session or the sync log.
C1_IdempotentReplay ==
  /\ [](\A r \in Reqs : PushDone(r) =>
          /\ \A i \in 1..Len(req[r].items) :
               req[r].pre[i] => req[r].outcome[i] = "skipped"
          /\ Len(req[r].items) = 1 /\ req[r].pre[1] =>
               req[r].skipped = 1 /\ req[r].processed = 0 /\ req[r].failed = 0)
  /\ [][\A r \in Reqs :
          /\ req[r].type = "push" /\ req[r].pc # "done"
          /\ req[r].pre[req[r].idx]
          /\ Moves(r)
          => UNCHANGED <<scan, area, session, syncLog>>]_vars

\* A SCAN item is replayed after its first push was processed: it is
\* skipped, one scan row and one SUCCESS row exist.
C1_Witness ==
  \E r \in Reqs :
    /\ PushDone(r) /\ Len(req[r].items) = 1 /\ req[r].pre[1]
    /\ req[r].skipped = 1
    /\ req[r].items[1].action = SCAN
    /\ scan[req[r].items[1].payload.localId].exists
    /\ LogCount(<<req[r].dev, SyncAction(req[r].items[1]), "SUCCESS">>) = 1

ClaimDone(r) == req[r].type = "claim" /\ req[r].pc = "done"

\* C2. Exclusive claim under concurrency: when the only two requests of
\* a behaviour are claims of two different devices, each with a session,
\* on the same area, both arrived while the area was unclaimed, then once
\* both have returned one has 200, the other 409, and exactly one
\* session holds the claim.
C2_ExclusiveClaim ==
  \A a \in Areas :
    ( /\ budget = MaxOps - 2
      /\ \A r \in Reqs : ClaimDone(r) /\ req[r].ar = a /\ req[r].pre[1]
      /\ req[1].dev # req[2].dev
      /\ \A r \in Reqs : session[<<req[r].st, req[r].dev>>].status # "NONE" )
    => /\ {req[1].code, req[2].code} = {200, 409}
       /\ Cardinality(ClaimedBy(a)) = 1

C4_ConcurrentReplay ==
  /\ \A e \in DOMAIN syncLog :
       e[3] = "SUCCESS" /\ e[2] # UPLOAD_SCANS => syncLog[e] <= 1
  /\ ( /\ \A r \in Reqs : PushDone(r) /\ Len(req[r].items) = 1 /\ ~req[r].pre[1]
       /\ req[1].dev = req[2].dev
       /\ req[1].items = req[2].items )
     => req[1].processed + req[2].processed <= 1

\* A step of request r that runs prisma.scan.upsert, and its payload.
Upserts(r) ==
  /\ At(r, "push", "scan") \/ At(r, "upload", "upsert")
  /\ Moves(r)

UpsertPayload(r) == IF req[r].type = "push" THEN Item(r).payload ELSE Item(r)

\* C5. Scan merge: an upsert for a localId that exists sets quantity,
\* isValid and validationMessage to the incoming values and changes no
\* other field, whatever the payload and the sending device.
C5_ScanMerge ==
  [][\A r \in Reqs :
       LET p == UpsertPayload(r)
       IN Upserts(r) /\ scan[p.localId].exists =>
            scan' = [scan EXCEPT ![p.localId] =
                       [scan[p.localId] EXCEPT
                          !.quantity = p.quantity,
                          !.isValid = p.isValid,
                          !.validationMessage = p.validationMessage]]]_vars

\* The idempotency keys of the failed items, in list order.
RECURSIVE FailedKeys(_, _)
FailedKeys(items, outcome) ==
  IF items = <<>> THEN <<>>
  ELSE (IF Head(outcome) = "failed" THEN <<Head(items).idempotencyKey>> ELSE <<>>)
       \o FailedKeys(Tail(items), Tail(outcome))

\* C6. Partial batch isolation: when a push has returned every item has
\* its outcome, processed + skipped + failed = n, errors holds exactly the
\* keys of the failed items, every processed item has its SUCCESS row,
\* and a failed item is one that names a nonexistent area.
C6_PartialBatch ==
  \A r \in Reqs : PushDone(r) =>
    LET n == Len(req[r].items)
    IN /\ Len(req[r].outcome) = n
       /\ req[r].processed + req[r].skipped + req[r].failed = n
       /\ req[r].errors = FailedKeys(req[r].items, req[r].outcome)
       /\ \A i \in 1..n :
            /\ req[r].outcome[i] = "processed" =>
                 LogCount(<<req[r].dev, SyncAction(req[r].items[i]), "SUCCESS">>) > 0
            /\ req[r].outcome[i] = "failed" =>
                 req[r].items[i].payload.areaId \notin Areas

\* A push of two items whose first item failed and whose second item was
\* processed.
C6_Witness ==
  \E r \in Reqs :
    /\ PushDone(r) /\ Len(req[r].items) = 2
    /\ req[r].outcome = <<"failed", "processed">>
    /\ req[r].errors = <<req[r].items[1].idempotencyKey>>

\* C7. Sole writer: a step that creates, changes or deletes a scan of
\* area A is a step of a request of the device whose session holds the
\* claim on A.
C7_SoleWriter ==
  [][\A l \in LocalIds : scan'[l] # scan[l] =>
       LET a == IF scan[l].exists THEN scan[l].areaId ELSE scan'[l].areaId
       IN \E r \in Reqs : Moves(r) /\ \E k \in ClaimedBy(a) : k[2] = req[r].dev]_vars

\* C8. Claim-complete coupling: the step that commits a completion leaves
\* the area COMPLETED with completedAt set and the session without a
\* claim, in one step.
C8_CompleteCoupling ==
  [][\A r \in Reqs : At(r, "complete", "tx") /\ Moves(r) =>
       LET a == req[r].ar
           k == <<req[r].st, req[r].dev>>
       IN /\ req'[r].code = 200
          /\ area'[a].status = "COMPLETED"
          /\ area'[a].completedAt # NoTime
          /\ session'[k].claimedAreaId = NoArea]_vars

\* A device that held the claim on an area has completed it.
C8_Witness ==
  \E r \in Reqs :
    /\ req[r].type = "complete" /\ req[r].pc = "done" /\ req[r].code = 200
    /\ area[req[r].ar].status = "COMPLETED"
    /\ session[<<req[r].st, req[r].dev>>].claimedAreaId = NoArea

\* C9. Release stickiness: the step that commits a release clears the
\* session's claim and leaves every area row as it was, and the released
\* area is not PENDING.
C9_ReleaseSticky ==
  [][\A r \in Reqs : At(r, "release", "update") /\ Moves(r) =>
       /\ session'[<<req[r].st, req[r].dev>>].claimedAreaId = NoArea
       /\ area' = area
       /\ area'[req[r].ar].status # "PENDING"]_vars

\* A release has returned 200 and its area is IN_PROGRESS and unclaimed.
C9_Witness ==
  \E r \in Reqs :
    /\ req[r].type = "release" /\ req[r].pc = "done" /\ req[r].code = 200
    /\ area[req[r].ar].status = "IN_PROGRESS"
    /\ ClaimedBy(req[r].ar) = {}

\* C10. Claim requires an active session: a claim passes the session
\* lookup and is committed only for a session whose status is ACTIVE; a
\* claim that returns another code than 200 changes no session and no
\* area.
C10_ClaimNeedsActive ==
  [][\A r \in Reqs : req[r].type = "claim" /\ req[r].pc # "done" /\ Moves(r) =>
       IF req'[r].pc = "tx" \/ req'[r].code = 200
       THEN session[<<req[r].st, req[r].dev>>].status = "ACTIVE"
       ELSE UNCHANGED <<area, session>>]_vars

\* C11. Safe resend: a push that arrives while an earlier push of the
\* same device has applied the same item and not yet written its SUCCESS
\* row (it timed out for the client, or stopped there) counts the item as
\* skipped.
C11_SafeResend ==
  [][\A r \in Reqs, q \in Reqs :
       ( /\ q # r /\ At(q, "push", "log")
         /\ req[r].pc = "done" /\ Moves(r) /\ req'[r].type = "push"
         /\ req'[r].dev = req[q].dev
         /\ req'[r].items[1] = Item(q) )
       => req'[r].outcome = <<"skipped">>]_vars

\* C12. Master version order-independence: the version a master route
\* returned for a list of barcodes is the version of every permutation of
\* that list.
C12_VersionOrderIndependent ==
  probe.type \in {"upload", "head", "create"} =>
    \A f \in Permutations(DOMAIN probe.items) :
      computeMasterVersion([i \in DOMAIN probe.items |-> probe.items[f[i]]])
        = probe.version

\* A version was returned for a list of different barcodes that is not in
\* sorted order.
C12_Witness ==
  /\ probe.type \in {"upload", "head", "create"}
  /\ Len(probe.items) >= 2
  /\ probe.items[1] # probe.items[2]
  /\ Sort(probe.items) # probe.items

\* C13. Claim never moves status backwards: the step that commits a claim
\* makes a PENDING area IN_PROGRESS and leaves any other status as it is,
\* and sets startedAt only when it was unset.
C13_ClaimForwardOnly ==
  [][\A r \in Reqs : At(r, "claim", "tx") /\ Moves(r) /\ req'[r].code = 200 =>
       LET a == req[r].ar
       IN /\ area'[a].status = IF area[a].status = "PENDING"
                               THEN "IN_PROGRESS" ELSE area[a].status
          /\ area'[a].startedAt = IF area[a].startedAt = NoTime
                                  THEN now ELSE area[a].startedAt]_vars

\* C14. Area state machine: every step that changes an area's status
\* takes it from PENDING to IN_PROGRESS, as the commit of a claim, or
\* from IN_PROGRESS to COMPLETED, as the commit of a completion.
C14_AreaStateMachine ==
  [][\A a \in Areas : area'[a].status # area[a].status =>
       \/ /\ area[a].status = "PENDING" /\ area'[a].status = "IN_PROGRESS"
          /\ \E r \in Reqs : At(r, "claim", "tx") /\ Moves(r)
       \/ /\ area[a].status = "IN_PROGRESS" /\ area'[a].status = "COMPLETED"
          /\ \E r \in Reqs :
               (At(r, "complete", "tx") \/ At(r, "push", "completeTx")) /\ Moves(r)]_vars

\* C15. Non-holder release/complete is rejected: a release or complete
\* that arrives when the device has no session, or a session whose
\* claimedAreaId is not the area, returns 400 at once and changes no
\* session and no area.
C15_NonHolderRejected ==
  [][\A r \in Reqs :
       ( /\ req[r].pc = "done" /\ Moves(r)
         /\ req'[r].type \in {"release", "complete"}
         /\ LET k == <<req'[r].st, req'[r].dev>>
            IN session[k].status = "NONE" \/ session[k].claimedAreaId # req'[r].ar )
       => /\ req'[r].pc = "done" /\ req'[r].code = 400
          /\ UNCHANGED <<session, area>>]_vars

\* A release of an area was refused for a device whose session holds the
\* claim on another area.
C15_Witness ==
  \E r \in Reqs :
    /\ req[r].type = "release" /\ req[r].pc = "done" /\ req[r].code = 400
    /\ session[<<req[r].st, req[r].dev>>].claimedAreaId \notin {NoArea, req[r].ar}

C17_ClaimedImpliesStarted ==
  \A a \in Areas : ClaimedBy(a) # {} => area[a].status # "PENDING"

\* A claim of an area that was unclaimed when the request arrived has
\* returned 200: the session holds the claim and the area has started.
C17_Witness ==
  \E r \in Reqs :
    /\ ClaimDone(r) /\ req[r].code = 200 /\ req[r].pre[1]
    /\ <<req[r].st, req[r].dev>> \in ClaimedBy(req[r].ar)
    /\ area[req[r].ar].status = "IN_PROGRESS"
    /\ area[req[r].ar].startedAt # NoTime

\* C18. Tolerant COMPLETE_AREA: the transaction of a COMPLETE_AREA item
\* for an existing area makes the area COMPLETED and goes on to the
\* ledger write (the item is processed, not failed), whether or not the
\* device's session holds the claim; a claim on the area that the session
\* holds at that step is cleared by that step.
C18_TolerantComplete ==
  [][\A r \in Reqs :
       At(r, "push", "completeTx") /\ Moves(r) /\ Item(r).payload.areaId \in Areas =>
         LET a == Item(r).payload.areaId
             k == <<Item(r).payload.stocktakeId, req[r].dev>>
         IN /\ area'[a].status = "COMPLETED"
            /\ req'[r].pc = "log"
            /\ session[k].claimedAreaId = a => session'[k].claimedAreaId = NoArea]_vars

\* A step in which request r looks an item up in the ledger: the arrival
\* of a push, or the lookup of a later item; the item looked up.
Looks(r) ==
  /\ Moves(r)
  /\ \/ req[r].pc = "done" /\ req'[r].type = "push"
     \/ At(r, "push", "lookup")

Looked(r) == IF req[r].pc = "done" THEN req'[r].items[1] ELSE Item(r)

SkippedBy(r) ==
  req'[r].skipped = (IF req[r].pc = "done" THEN 0 ELSE req[r].skipped) + 1

\* C19. Permanent skip: the number of SUCCESS rows of a ledger key never
\* decreases, and a lookup of an item whose SUCCESS row exists, whatever
\* happened in between and whatever its payload, counts the item as
\* skipped and changes no scan, area, session or sync-log row.
C19_PermanentSkip ==
  /\ [][\A e \in DOMAIN syncLog :
          e \in DOMAIN syncLog' /\ syncLog'[e] >= syncLog[e]]_vars
  /\ [][\A r \in Reqs :
          Looks(r) /\ LogCount(<<req'[r].dev, SyncAction(Looked(r)), "SUCCESS">>) > 0
          => SkippedBy(r) /\ UNCHANGED <<scan, area, session, syncLog>>]_vars

\* A SCAN under key "q" for localId L2 was skipped because another SCAN
\* payload (localId L1) had been applied under that key: no scan L2
\* exists.
C19_Witness ==
  \E r \in Reqs :
    /\ PushDone(r) /\ req[r].outcome = <<"skipped">>
    /\ req[r].items[1].action = SCAN
    /\ req[r].items[1].payload.localId = "L2"
    /\ scan["L1"].exists /\ ~scan["L2"].exists

\* Items of every action under keys that contain the separator and an
\* action name.
ScopeItems ==
  {PushItem(a, k, RefPayload("L1", NoArea, 0)) :
     a \in {SCAN, DELETE_SCAN, UPDATE_SCAN, COMPLETE_AREA},
     k \in {<<"k">>, <<"q">>, <<"_", "k">>, SCAN \o <<"_", "k">>}}

\* Two items with the same ledger key have the same action and the same
\* idempotency key.
LedgerKeyInjective ==
  \A i \in ScopeItems, j \in ScopeItems :
    SyncAction(i) = SyncAction(j) =>
      i.action = j.action /\ i.idempotencyKey = j.idempotencyKey

\* C20. Idempotency-key scoping: the stored ledger key is injective in
\* (action, idempotencyKey), and a lookup counts an item as skipped only
\* when a SUCCESS row of the same device and the item's ledger key exists.
C20_KeyScoping ==
  /\ [](LedgerKeyInjective)
  /\ [][\A r \in Reqs :
          Looks(r) /\ SkippedBy(r) =>
            \E i \in ScopeItems :
              /\ i.action = Looked(r).action
              /\ i.idempotencyKey = Looked(r).idempotencyKey
              /\ LogCount(<<req'[r].dev, SyncAction(i), "SUCCESS">>) > 0]_vars

\* Device d1 has SUCCESS rows for SCAN and for DELETE_SCAN under the same
\* key "k": the second item was dispatched, not skipped.
C20_Witness ==
  /\ LogCount(<<"d1", SyncAction(PushItem(SCAN, <<"k">>, RefPayload("L1", NoArea, 0))), "SUCCESS">>) = 1
  /\ LogCount(<<"d1", SyncAction(PushItem(DELETE_SCAN, <<"k">>, RefPayload("L1", NoArea, 0))), "SUCCESS">>) = 1
  /\ \E r \in Reqs :
       /\ PushDone(r) /\ req[r].dev = "d1" /\ ~req[r].pre[1]
       /\ req[r].items[1].action = DELETE_SCAN
       /\ req[r].outcome = <<"processed">>

\* The SCAN of BatchItems that names an area that does not exist: its
\* dispatch always fails.
FailingItem == PushItem(SCAN, <<"q">>, ScanPayload("L2", MissingArea, 1))

\* C21. Failed items stay retryable: a step in which an item fails
\* writes no sync-log row; a SUCCESS row of a ledger key is written only
\* by the ledger write of a push that dispatched an item of that key; an
\* item is skipped only when such a row exists; and an item whose
\* dispatch always fails is counted as failed in every push, never as
\* skipped or processed.
C21_FailedRetryable ==
  /\ [][/\ \A r \in Reqs :
             req[r].type = "push" /\ req[r].pc # "done"
             /\ req'[r].failed = req[r].failed + 1
             => UNCHANGED syncLog
        /\ \A r \in Reqs :
             Looks(r) /\ SkippedBy(r) =>
               LogCount(<<req'[r].dev, SyncAction(Looked(r)), "SUCCESS">>) > 0
        /\ \A e \in DOMAIN syncLog' :
             e[3] = "SUCCESS" /\ e[2] # UPLOAD_SCANS /\ syncLog'[e] > LogCount(e)
             => \E r \in Reqs :
                  /\ At(r, "push", "log") /\ Moves(r)
                  /\ e = <<req[r].dev, SyncAction(Item(r)), "SUCCESS">>]_vars
  /\ [](\A r \in Reqs : PushDone(r) =>
          \A i \in 1..Len(req[r].items) :
            req[r].items[i] = FailingItem => req[r].outcome[i] = "failed")

\* The second request of the device is a push of the failing item and it
\* failed again; the store is as it was at the start, so the first
\* request was a push of that item that failed as well.
C21_Witness ==
  /\ budget = MaxBatchOps - 2
  /\ PushDone(1) /\ req[1].items = <<FailingItem>> /\ req[1].outcome = <<"failed">>
  /\ syncLog = [e \in {} |-> 0]
  /\ scan = [l \in LocalIds |-> NoScan]
  /\ area = [a \in Areas |-> NewArea]

\* The items of the example: a scan of localId L1 and its deletion.
ScanL1 == PushItem(SCAN, <<"k">>, ScanPayload("L1", "a1", 1))

DeleteL1 == PushItem(DELETE_SCAN, <<"k">>, RefPayload("L1", NoArea, 0))

\* C22. In-order application within a push: a push works on one item at
\* a time, in list order: the items before the current one have their
\* outcome and no later item has; every step of the push changes only
\* the scan of the current item and writes only its ledger row; so
\* [SCAN L1, DELETE_SCAN L1], both processed, leaves no scan L1 and
\* [DELETE_SCAN L1, SCAN L1] leaves scan L1.
C22_InOrder ==
  /\ [](\A r \in Reqs : req[r].type = "push" =>
          /\ Len(req[r].outcome) =
               IF req[r].pc = "done" THEN Len(req[r].items) ELSE req[r].idx - 1
          /\ PushDone(r) /\ req[r].outcome = <<"processed", "processed">> =>
               /\ req[r].items = <<ScanL1, DeleteL1>> => ~scan["L1"].exists
               /\ req[r].items = <<DeleteL1, ScanL1>> => scan["L1"].exists)
  /\ [][\A r \in Reqs : req[r].type = "push" /\ req[r].pc # "done" /\ Moves(r) =>
          LET cur == req[r].items[req[r].idx]
          IN /\ \/ req'[r].idx = req[r].idx
                \/ /\ req'[r].idx = req[r].idx + 1
                   /\ Len(req'[r].outcome) = req[r].idx
             /\ \A l \in LocalIds : scan'[l] # scan[l] => l = cur.payload.localId
             /\ syncLog' # syncLog =>
                  syncLog' = LogCreate(<<req[r].dev, SyncAction(cur), "SUCCESS">>)]_vars

\* The push [SCAN L1, DELETE_SCAN L1] has returned with both items
\* processed and no scan L1 is left.
C22_Witness ==
  /\ PushDone(1) /\ req[1].items = <<ScanL1, DeleteL1>>
  /\ req[1].outcome = <<"processed", "processed">>
  /\ ~scan["L1"].exists

\* A step of request r that runs the statement of a DELETE_SCAN or an
\* UPDATE_SCAN item.
Edits(r) ==
  /\ At(r, "push", "delete") \/ At(r, "push", "update")
  /\ Moves(r)

\* C23. DELETE_SCAN and UPDATE_SCAN touch only the addressed scan: the
\* statement of such an item changes or removes only the scan whose
\* localId is the localId of its payload, and no item without a localId
\* reaches its statement.
C23_EditsAddressedScan ==
  [][\A r \in Reqs : Edits(r) =>
       /\ Item(r).payload.localId # Undefined
       /\ \A l \in LocalIds : scan'[l] # scan[l] => l = Item(r).payload.localId]_vars

\* C24. Absent-row idempotence: the statement of a DELETE_SCAN or
\* UPDATE_SCAN item whose localId matches no scan changes no scan and
\* goes on to the ledger write, which writes the item's SUCCESS row and
\* counts it as processed.
C24_AbsentRowIdempotent ==
  [][\A r \in Reqs :
       /\ ( /\ Edits(r)
            /\ Item(r).payload.localId \in LocalIds
            /\ ~scan[Item(r).payload.localId].exists )
          => scan' = scan /\ req'[r].pc = "log"
       /\ At(r, "push", "log") /\ Moves(r)
          => /\ syncLog' = LogCreate(<<req[r].dev, SyncAction(Item(r)), "SUCCESS">>)
             /\ req'[r].processed = req[r].processed + 1
             /\ req'[r].failed = req[r].failed]_vars

\* A DELETE_SCAN of localId L1 was processed while no scan existed: there
\* is still no scan and the item has its SUCCESS row.
C24_Witness ==
  /\ PushDone(1) /\ req[1].items = <<DeleteL1>> /\ req[1].outcome = <<"processed">>
  /\ scan = [l \in LocalIds |-> NoScan]
  /\ DOMAIN syncLog = {<<"d1", SyncAction(DeleteL1), "SUCCESS">>}
  /\ LogCount(<<"d1", SyncAction(DeleteL1), "SUCCESS">>) = 1

\* C25. UPDATE_SCAN partial update: the statement of an UPDATE_SCAN item
\* gives the scan of its localId the quantity, isValid and
\* validationMessage that its payload carries and leaves every other
\* field of the scan as it was.
C25_PartialUpdate ==
  [][\A r \in Reqs :
       LET p == Item(r).payload
       IN ( /\ At(r, "push", "update") /\ Moves(r)
            /\ p.localId \in LocalIds /\ scan[p.localId].exists )
          => scan'[p.localId] =
               [scan[p.localId] EXCEPT
                  !.quantity = IF p.quantity # 0 THEN p.quantity ELSE @,
                  !.isValid = IF p.validationMessage # Undefined THEN p.isValid ELSE @,
                  !.validationMessage =
                     IF p.validationMessage # Undefined THEN p.validationMessage ELSE @]]_vars

\* C26. Ingestion gating on push: the upsert of a pushed SCAN item
\* creates or updates a scan only while the stocktake of its payload is
\* ACTIVE or PAUSED.
C26_PushGated ==
  [][\A r \in Reqs :
       At(r, "push", "scan") /\ Moves(r) /\ scan' # scan =>
         stocktake[Item(r).payload.stocktakeId] \in {"ACTIVE", "PAUSED"}]_vars

\* C27. Upload gating: an upload that arrives while the stocktake is
\* neither ACTIVE nor PAUSED is answered 400 at once, with nothing
\* counted as created or updated, and changes no scan, no session and no
\* sync-log row.
C27_UploadGated ==
  [][\A r \in Reqs :
       ( /\ req[r].pc = "done" /\ Moves(r) /\ req'[r].type = "upload"
         /\ stocktake[req'[r].st] \notin {"ACTIVE", "PAUSED"} )
       => /\ req'[r].pc = "done" /\ req'[r].code = 400
          /\ req'[r].created = 0 /\ req'[r].updated = 0
          /\ UNCHANGED <<scan, session, syncLog>>]_vars

\* An upload of one scan was refused with 400 for a stocktake that is
\* not accepting scans, and no scan and no sync-log row exists.
C27_Witness ==
  \E r \in Reqs :
    /\ req[r].type = "upload" /\ req[r].pc = "done" /\ req[r].code = 400
    /\ Len(req[r].items) = 1
    /\ stocktake[req[r].st] \in {"DRAFT", "COMPLETED"}
    /\ scan = [l \in LocalIds |-> NoScan]
    /\ syncLog = [e \in {} |-> 0]

\* C28. SCAN side effect on push: when device "d1" only pushes, the
\* scansCount of its session is the number of SCAN items its pushes have
\* applied (one SUCCESS row each); skipped and failed items do not count.
C28_ScanSideEffect ==
  session[<<"s1", "d1">>].scansCount =
    LogCount(<<"d1", SyncAction(ScanL1), "SUCCESS">>)
    + LogCount(<<"d1", SyncAction(PushItem(SCAN, <<"q">>, ScanPayload("L2", "a2", 2))),
                 "SUCCESS">>)

\* C29. Upload accounting: a turn of the upload loop counts the scan as
\* created when its localId was newly inserted, as updated when the
\* localId existed, and as failed when the upsert threw; the session
\* update adds the number of creates to scansCount.
C29_UploadAccounting ==
  [][\A r \in Reqs :
       /\ At(r, "upload", "upsert") /\ Moves(r) =>
            LET l == Item(r).localId
                existed == scan[l].exists
                ok == scan'[l].exists
            IN /\ req'[r].created = req[r].created + (IF ok /\ ~existed THEN 1 ELSE 0)
               /\ req'[r].updated = req[r].updated + (IF existed THEN 1 ELSE 0)
               /\ req'[r].failed = req[r].failed + (IF ok THEN 0 ELSE 1)
       /\ At(r, "upload", "session") /\ Moves(r) =>
            LET k == <<req[r].st, req[r].dev>>
            IN session'[k].scansCount = session[k].scansCount + req[r].created]_vars

\* C30. Same-device re-claim is idempotent: a claim that arrives while a
\* session of its own device holds the area is not refused, and while
\* that session keeps the claim the request goes on to its transaction,
\* which returns 200 and leaves the session as it is, the area
\* IN_PROGRESS and startedAt at the value the area had when the request
\* arrived.
C30_ReclaimIdempotent ==
  [][\A r \in Reqs :
       /\ ( /\ req[r].pc = "done" /\ Moves(r) /\ req'[r].type = "claim"
            /\ <<req'[r].st, req'[r].dev>> \in ClaimedBy(req'[r].ar) )
          => /\ req'[r].pc = "findSession"
             /\ req'[r].locTime = area[req'[r].ar].startedAt
             /\ req'[r].locTime # NoTime
       /\ ( /\ req[r].type = "claim" /\ req[r].pc # "done" /\ Moves(r)
            /\ ~req[r].pre[1]
            /\ <<req[r].st, req[r].dev>> \in ClaimedBy(req[r].ar) )
          => IF req[r].pc = "findSession" THEN req'[r].pc = "tx"
             ELSE /\ req'[r].code = 200
                  /\ session' = session
                  /\ area'[req[r].ar].status = "IN_PROGRESS"
                  /\ area'[req[r].ar].startedAt = req[r].locTime]_vars

\* A claim that arrived while its device held the area has returned 200:
\* the session still holds the claim and the area is IN_PROGRESS.
C30_Witness ==
  \E r \in Reqs :
    /\ ClaimDone(r) /\ req[r].code = 200 /\ ~req[r].pre[1]
    /\ <<req[r].st, req[r].dev>> \in ClaimedBy(req[r].ar)
    /\ area[req[r].ar].status = "IN_PROGRESS"
    /\ area[req[r].ar].startedAt # NoTime

\* C31. Delta pull result: each query of a pull returns exactly the rows
\* whose updatedAt is strictly greater than since (a row with updatedAt =
\* since is excluded), of the given stocktake only when a stocktakeId is
\* supplied; the response carries the two results, and no step of a pull
\* changes a stocktake, an area, a session, a scan or the sync log.
C31_DeltaPull ==
  [][\A r \in Reqs :
       Moves(r) /\ req'[r].type = "pull" =>
         /\ UNCHANGED <<stocktake, stocktakeUpdatedAt, area, session, scan,
                        syncLog, master>>
         /\ (req[r].pc = "done" /\ req'[r].since # InvalidDate) =>
              \A s \in Stocktakes :
                ( /\ stocktakeUpdatedAt[s] > req'[r].since
                  /\ req'[r].st \in {Undefined, s} )
                <=> [status |-> stocktake[s],
                     updatedAt |-> stocktakeUpdatedAt[s], id |-> s]
                      \in req'[r].stocktakes
         /\ (req[r].pc = "done" /\ req'[r].since # InvalidDate) =>
              \A row \in req'[r].stocktakes : row.id \in Stocktakes
         /\ req[r].pc = "areas" =>
              /\ \A a \in Areas :
                   ( /\ area[a].updatedAt > req[r].since
                     /\ req[r].st \in {Undefined, area[a].stocktakeId} )
                   <=> [status |-> area[a].status,
                        stocktakeId |-> area[a].stocktakeId,
                        updatedAt |-> area[a].updatedAt, id |-> a]
                         \in req'[r].areas
              /\ \A row \in req'[r].areas : row.id \in Areas
              /\ req'[r].stocktakes = req[r].stocktakes
         /\ req[r].pc = "return" =>
              /\ req'[r].pc = "done" /\ req'[r].code = 200
              /\ req'[r].stocktakes = req[r].stocktakes
              /\ req'[r].areas = req[r].areas]_vars

\* A pull with since = 1 was answered with an area stamped 2 while
\* another area, stamped 1, is left out.
C31_Witness ==
  \E r \in Reqs :
    /\ req[r].type = "pull" /\ req[r].pc = "done" /\ req[r].code = 200
    /\ req[r].since = 1
    /\ \E row \in req[r].areas : row.updatedAt = 2
    /\ \E a \in Areas :
         /\ area[a].updatedAt = 1
         /\ \A row \in req[r].areas : row.id # a

\* C32. No lost change under watermark chaining: for a device that uses
\* the serverTime of each response as the since of its next pull, every
\* row stamped before the device's watermark, which no later pull of the
\* device returns, has its current status in the device's cache.
C32_NoLostChange ==
  /\ \A a \in Areas :
       area[a].updatedAt < puller.watermark => puller.areas[a] = area[a].status
  /\ \A s \in Stocktakes :
       stocktakeUpdatedAt[s] < puller.watermark
         => puller.stocktakes[s] = stocktake[s]

\* C33. Failed means not applied: when the only push issued so far has
\* returned with its item counted as failed, no scan, area or session row
\* differs from what it was before the push.
C33_FailedNotApplied ==
  \A r \in Reqs :
    ( /\ PushDone(r) /\ budget = MaxFaultOps - 1
      /\ Len(req[r].items) = 1 /\ req[r].failed = 1 )
    => /\ scan = [l \in LocalIds |-> NoScan]
       /\ area = [a \in Areas |-> NewArea]
       /\ session = Joined

\* C34. No claim on a completed area: no session holds the claim on an
\* area whose status is COMPLETED.
C34_NoClaimOnCompleted ==
  \A k \in SessionKeys, a \in Areas :
    session[k].claimedAreaId = a => area[a].status # "COMPLETED"

\* C35. Only active sessions hold claims: a session whose status is
\* DISCONNECTED or COMPLETED has no claimed area.
C35_OnlyActiveClaims ==
  \A k \in SessionKeys :
    session[k].status \in {"DISCONNECTED", "COMPLETED"}
      => session[k].claimedAreaId = NoArea

\* C36. Claims stay within the stocktake: the area a session holds
\* belongs to the stocktake of the session.
C36_ClaimWithinStocktake ==
  \A k \in SessionKeys, a \in Areas :
    session[k].claimedAreaId = a => area[a].stocktakeId = k[1]

\* C37. Claim switching: a claim that succeeds for a session holding
\* another area moves the session's claim to the new area in the step of
\* its transaction; after that step no session holds the area held
\* before, whose row is left as it was, and no other session is changed.
C37_ClaimSwitch ==
  [][\A r \in Reqs :
       At(r, "claim", "tx") /\ Moves(r) /\ req'[r].code = 200 =>
         LET k == <<req[r].st, req[r].dev>>
             A == session[k].claimedAreaId
             B == req[r].ar
         IN /\ session'[k].claimedAreaId = B
            /\ \A q \in SessionKeys \ {k} : session'[q] = session[q]
            /\ (A \in Areas /\ A # B) =>
                 /\ area'[A] = area[A]
                 /\ \A q \in SessionKeys : session'[q].claimedAreaId # A]_vars

\* Device "d1", which held "a1", has claimed "a2" with the only request
\* issued so far: it holds "a2", nobody holds "a1", and "a1" is still
\* IN_PROGRESS.
C37_Witness ==
  /\ budget = MaxOps - 1
  /\ \E r \in Reqs :
       /\ ClaimDone(r) /\ req[r].code = 200
       /\ req[r].dev = "d1" /\ req[r].ar = "a2"
  /\ session[<<"s1", "d1">>].claimedAreaId = "a2"
  /\ \A q \in SessionKeys : session[q].claimedAreaId # "a1"
  /\ area["a1"].status = "IN_PROGRESS"

\* C38. Upload version agrees with probe: the version a master probe
\* returns right after an upload equals the version the upload returned.
C38_UploadAgreesWithProbe ==
  [][probe.type = "upload" /\ probe'.type = "head"
       => probe'.version = probe.version]_vars
====
